---- MODULE Spec2Model ----
(***************************************************************************)
(* A model of src/src/prefect/environments.py: the Secret / Environment /  *)
(* ContainerEnvironment / LocalEnvironment classes, the file system and    *)
(* the Docker daemon they act on, and the callers that invoke build and    *)
(* run.  Every call is a small process: one action per statement of the    *)
(* method that touches the outside world, so that a failure can be placed  *)
(* at every step and two calls can interleave.                             *)
(***************************************************************************)
EXTENDS Integers, Sequences, FiniteSets, TLC

VARIABLES
    cenv,          \* the ContainerEnvironment instance (its attributes)
    lenv,          \* the LocalEnvironment instance (its attributes)
    dirs,          \* file system: the directories that exist under /tmp
    files,         \* file system: <<directory, basename>> -> content
    pulled,        \* Docker daemon: image references pulled so far
    images,        \* Docker daemon: tags built so far
    containers,    \* Docker daemon: containers started, in start order
    tmpCount,      \* number of temporary names handed out by tempfile
    ncalls,        \* number of build/run calls begun so far
    serialized,    \* TRUE when the caller never overlaps two calls
    calls,         \* per caller thread: the frame of its current/last call
    lastReturned,  \* id of the handle most recently returned by a container run
    lastRecorder   \* the thread that most recently assigned last_container_id

vars == <<cenv, lenv, dirs, files, pulled, images, containers, tmpCount,
          ncalls, serialized, calls, lastReturned, lastRecorder>>

(***************************************************************************)
(* Bounds of the model.                                                    *)
(***************************************************************************)
MaxCalls == 2

Threads == {"t1", "t2"}
MainThread == "t1"

\* Python's None, where the other values of the field are strings.
None == "None"

\* Names tempfile hands out (fresh on every request) and ids the Docker
\* daemon gives to containers (fresh on every start).
TmpNames == <<"tmp1", "tmp2", "tmp3", "tmp4", "tmp5", "tmp6", "tmp7", "tmp8">>
ContainerIds == <<"c1", "c2", "c3", "c4", "c5", "c6", "c7", "c8">>

TmpRoot == "/tmp"

(***************************************************************************)
(* Secret (lines 26-52): a name and a value.                               *)
(***************************************************************************)
Secret(name, value) == [name |-> name, value |-> value]

\* A Python list-or-None attribute.
PyNone == [isNone |-> TRUE, items |-> <<>>]
PyList(s) == [isNone |-> FALSE, items |-> s]
\* Python truthiness of a list-or-None: None and [] are falsy.
Truthy(l) == (~l.isNone) /\ l.items # <<>>

\* Environment.__init__: self.secrets = secrets or []
EnvironmentInit(secrets) == IF Truthy(secrets) THEN secrets.items ELSE <<>>

\* ContainerEnvironment.__init__
ContainerEnvironmentInit(image, tag, python_dependencies, secrets) ==
    [image |-> image,
     tag |-> IF tag = None THEN image ELSE tag,
     python_dependencies |-> python_dependencies,
     last_container_id |-> None,
     secrets |-> EnvironmentInit(secrets)]

\* Keys Fernet.generate_key() may return.
GeneratedKeys == {"gk1", "gk2"}

\* LocalEnvironment.__init__: encryption_key or Fernet.generate_key().decode().
\* The constructor takes no secrets and does not call Environment.__init__;
\* the secrets attribute of the Environment contract is whatever the caller
\* attached to the instance.
LocalEnvironmentInit(encryption_key, generated, secrets) ==
    [encryption_key |-> IF encryption_key = None THEN generated ELSE encryption_key,
     secrets |-> secrets]

(***************************************************************************)
(* Inputs.                                                                 *)
(***************************************************************************)
ImageChoices == {"python:3.6"}
TagChoices == {None, "flow:latest"}
DependencyChoices == {PyNone, PyList(<<>>), PyList(<<"pandas">>),
                      PyList(<<"pandas", "numpy">>)}
SecretChoices == {PyNone,
                  PyList(<<Secret("A", "1")>>),
                  PyList(<<Secret("A", "1"), Secret("B", "2")>>)}
LocalSecretChoices == {<<>>, <<Secret("A", "1")>>}
KeyChoices == {None, "userkey"}
Flows == {"flow1"}
Commands == {"prefect run", "exit 1"}

(***************************************************************************)
(* Text synthesis: ContainerEnvironment.create_dockerfile (lines 209-252). *)
(* A text is a sequence of physical lines; a line is its leading           *)
(* indentation (a number of spaces) and the text after it.                 *)
(***************************************************************************)
\* Indentation of the template lines inside the triple-quoted string.
TemplateIndent == 16

Line(indent, text) == [indent |-> indent, text |-> text]
TemplateLine(text) == Line(TemplateIndent, text)
Blank == Line(0, "")

\* The lines of a value substituted at a "{}" that stands alone on a template
\* line: its first line follows the template's indentation, every line after
\* an embedded newline starts at column 0.
Slot(lines) ==
    [i \in 1..Len(lines) |-> Line(IF i = 1 THEN TemplateIndent ELSE 0, lines[i])]

\* r"RUN pip install " + " \\\n".join(self.python_dependencies), split at
\* its newlines; "" when there are no dependencies (lines 213-217).
PipInstalls(python_dependencies) ==
    IF Truthy(python_dependencies)
    THEN LET d == python_dependencies.items
         IN [i \in 1..Len(d) |->
                (IF i = 1 THEN "RUN pip install " ELSE "") \o d[i]
                \o (IF i < Len(d) THEN " \\" ELSE "")]
    ELSE <<"">>

\* env_vars += "ENV {}={}\n".format(secret.name, secret.value), split at its
\* newlines: one line per secret and the empty remainder after the last
\* newline; "" when there are no secrets (lines 220-223).
EnvVars(secrets) ==
    IF secrets # <<>>
    THEN [i \in 1..Len(secrets) |->
             "ENV " \o secrets[i].name \o "=" \o secrets[i].value] \o <<"">>
    ELSE <<"">>

\* The name of the registry-path variable as the Dockerfile template spells
\* it (line 243) and as LocalEnvironment.run spells it (line 319).
DockerfileRegistryPathVar == "PREFECT__REGISRTY__STARTUP_REGISTRY_PATH"
RunRegistryPathVar == "PREFECT__REGISTRY__STARTUP_REGISTRY_PATH"
RunEncryptionKeyVar == "PREFECT__REGISTRY__ENCRYPTION_KEY"

\* Variant: the two substitutions in the opposite order.
FormatSlotsPipFirst(env_vars, pip_installs) == Slot(pip_installs) \o Slot(env_vars)

\* .format(self.image, env_vars, pip_installs): the second "{}" of the
\* template receives env_vars, the third pip_installs (lines 236-237, 247-249).
FormatSlots(env_vars, pip_installs) == Slot(env_vars) \o Slot(pip_installs)

AptGetLine == "RUN apt-get -qq -y update && apt-get -qq -y install --no-install-recommends --no-install-suggests git"
GitCloneLine == "RUN git clone https://$PERSONAL_ACCESS_TOKEN@github.com/PrefectHQ/prefect.git"

\* The template after .format, before dedent (lines 231-249).
Formatted(env) ==
    << TemplateLine("FROM " \o env.image),
       Blank,
       TemplateLine("RUN pip install pip --upgrade"),
       TemplateLine("RUN pip install wheel") >>
    \o FormatSlots(EnvVars(env.secrets), PipInstalls(env.python_dependencies))
    \o << Blank,
          TemplateLine(AptGetLine),
          Blank,
          TemplateLine("COPY registry ./registry"),
          Blank,
          TemplateLine("ENV " \o DockerfileRegistryPathVar \o " ./registry"),
          Blank,
          TemplateLine(GitCloneLine),
          TemplateLine("RUN pip install prefect") >>

SetMin(S) == CHOOSE m \in S : \A n \in S : m <= n

\* textwrap.dedent: whitespace-only lines become empty, and the leading
\* whitespace common to all other lines is removed.
Dedent(lines) ==
    LET nonblank == {i \in 1..Len(lines) : lines[i].text # ""}
        margin == IF nonblank = {} THEN 0
                  ELSE SetMin({lines[i].indent : i \in nonblank})
    IN [i \in 1..Len(lines) |->
           IF lines[i].text = "" THEN Blank
           ELSE Line(lines[i].indent - margin, lines[i].text)]

\* file_contents of create_dockerfile.
FileContents(env) == Dedent(Formatted(env))

(***************************************************************************)
(* LocalEnvironment: the serialized registry and the command line.         *)
(***************************************************************************)
\* prefect.core.registry.serialize_registry(registry, include_ids=[flow.id],
\* encryption_key): an opaque blob determined by the flow and the key.
SerializeRegistry(flow, encryption_key) == <<"fernet", encryption_key, flow>>

\* Blobs a caller may pass to run as key.
KeyBlobs == {SerializeRegistry(f, k) : f \in Flows, k \in {"userkey", "gk1"}}

\* "{}/{}".format(directory, basename)
PathStr(p) == p[1] \o "/" \o p[2]

\* The list env of LocalEnvironment.run (lines 318-321).
RunEnv(self, tmpname) ==
    << RunRegistryPathVar \o "=\"" \o tmpname \o "\"",
       RunEncryptionKeyVar \o "=\"" \o self.encryption_key \o "\"" >>

RECURSIVE Join(_, _)
\* sep.join(strs)
Join(strs, sep) ==
    IF strs = <<>> THEN ""
    ELSE IF Len(strs) = 1 THEN strs[1]
    ELSE strs[1] \o sep \o Join(Tail(strs), sep)

(***************************************************************************)
(* Calls.  A frame holds the arguments and locals of a thread's current    *)
(* call (or of its last one, once pc = "done"), the statement it is at,    *)
(* and a record of what the call did to the outside world.                 *)
(***************************************************************************)
IdleFrame ==
    [op |-> "none", pc |-> "idle",
     exc |-> FALSE,                \* an exception is propagating
     trace |-> <<>>,               \* the statements executed, with outcome
     flow |-> None, key |-> <<>>, cli_cmd |-> None,      \* arguments
     tmp |-> None,                 \* name of the call's temporary dir/file
     encryption_key |-> None,      \* key of the LocalEnvironment() made by build
     serialized_registry |-> <<>>,
     running_container |-> None,
     env |-> <<>>, cmdline |-> None,   \* what check_output was given
     staged |-> <<>>,              \* content of the temp file when the shell ran
     context |-> {},               \* basenames in the directory given to images.build
     contextPulled |-> FALSE,      \* base image present when images.build ran
     outcome |-> "none",           \* "returned" or "raised" once pc = "done"
     value |-> <<>>]               \* the value returned

CBuild == "ContainerEnvironment.build"
CRun == "ContainerEnvironment.run"
LBuild == "LocalEnvironment.build"
LRun == "LocalEnvironment.run"

\* Variant: build calls images.build before create_dockerfile.
ProgramBuildFirst(op) ==
    CASE op = CBuild -> <<"TemporaryDirectory", "LocalEnvironment", "flow.register",
                          "serialize_registry", "serialized_registry_to_file",
                          "pull_image", "images.build", "create_dockerfile",
                          "TemporaryDirectory.__exit__">>
      [] op = CRun -> <<"containers.run", "last_container_id">>
      [] op = LBuild -> <<"flow.register", "serialize_registry">>
      [] op = LRun -> <<"NamedTemporaryFile", "write_key", "check_output",
                        "NamedTemporaryFile.__exit__">>

\* The statements of each method, in program order (build: lines 152-167,
\* run: 179-184, LocalEnvironment.build: 295-300, LocalEnvironment.run: 314-323).
Program(op) ==
    CASE op = CBuild -> <<"TemporaryDirectory", "LocalEnvironment", "flow.register",
                          "serialize_registry", "serialized_registry_to_file",
                          "pull_image", "create_dockerfile", "images.build",
                          "TemporaryDirectory.__exit__">>
      [] op = CRun -> <<"containers.run", "last_container_id">>
      [] op = LBuild -> <<"flow.register", "serialize_registry">>
      [] op = LRun -> <<"NamedTemporaryFile", "write_key", "check_output",
                        "NamedTemporaryFile.__exit__">>

Index(seq, x) == CHOOSE i \in 1..Len(seq) : seq[i] = x

\* The statement after pc, "done" after the last one.
Succ(op, pc) ==
    LET p == Program(op)
        i == Index(p, pc)
    IN IF i < Len(p) THEN p[i + 1] ELSE "done"

\* Where an exception raised by statement pc goes: to the __exit__ of the
\* enclosing with block, or out of the call.
ExitOf(op, pc) ==
    IF op = CBuild /\ pc # "TemporaryDirectory" THEN "TemporaryDirectory.__exit__"
    ELSE IF op = LRun /\ pc # "NamedTemporaryFile" THEN "NamedTemporaryFile.__exit__"
    ELSE "done"

\* Statement step of frame f completed normally.
Advance(f, step) ==
    [f EXCEPT !.trace = Append(@, <<step, "ok">>), !.pc = Succ(f.op, step)]

\* Statement step of frame f raised.
Raise(f, step) ==
    LET e == ExitOf(f.op, step)
    IN [f EXCEPT !.trace = Append(@, <<step, "failed">>),
                 !.exc = TRUE,
                 !.pc = e,
                 !.outcome = IF e = "done" THEN "raised" ELSE @]

\* The call of frame f ends: the pending exception reaches the caller, or
\* the value does.
Finish(f, step) ==
    [f EXCEPT !.trace = Append(@, <<step, "ok">>),
              !.pc = "done",
              !.outcome = IF f.exc THEN "raised" ELSE "returned",
              !.value = IF f.exc THEN <<>> ELSE @]

Quiet(t) == calls[t].pc \in {"idle", "done"}

\* A thread may begin a call when its previous one has ended; when the
\* caller serializes its calls, they all come from one thread.
CanBegin(t) ==
    /\ Quiet(t)
    /\ ncalls < MaxCalls
    /\ serialized => t = MainThread

Begin(t, frame) ==
    /\ CanBegin(t)
    /\ calls' = [calls EXCEPT ![t] = frame]
    /\ ncalls' = ncalls + 1
    /\ UNCHANGED <<cenv, lenv, dirs, files, pulled, images, containers,
                   tmpCount, serialized, lastReturned, lastRecorder>>

BeginContainerBuild(t) ==
    \E flow \in Flows :
        Begin(t, [IdleFrame EXCEPT !.op = CBuild, !.pc = Program(CBuild)[1],
                                   !.flow = flow])

BeginContainerRun(t) ==
    \E key \in KeyBlobs, cli_cmd \in Commands :
        Begin(t, [IdleFrame EXCEPT !.op = CRun, !.pc = Program(CRun)[1],
                                   !.key = key, !.cli_cmd = cli_cmd])

BeginLocalBuild(t) ==
    \E flow \in Flows :
        Begin(t, [IdleFrame EXCEPT !.op = LBuild, !.pc = Program(LBuild)[1],
                                   !.flow = flow])

BeginLocalRun(t) ==
    \E key \in KeyBlobs, cli_cmd \in Commands :
        Begin(t, [IdleFrame EXCEPT !.op = LRun, !.pc = Program(LRun)[1],
                                   !.key = key, !.cli_cmd = cli_cmd])

At(t, op, pc) == calls[t].op = op /\ calls[t].pc = pc

(***************************************************************************)
(* The file system.                                                        *)
(***************************************************************************)
NoFiles == [q \in {} |-> <<>>]

WriteFile(fs, path, content) ==
    [q \in (DOMAIN fs) \cup {path} |-> IF q = path THEN content ELSE fs[q]]

RemoveFiles(fs, paths) == [q \in (DOMAIN fs) \ paths |-> fs[q]]

InDir(fs, dir) == {q \in DOMAIN fs : q[1] = dir}

TempPath(f) == PathStr(<<TmpRoot, f.tmp>>)

\* open(path, "w")/write/close: all of content is written, or the open
\* fails and nothing changes, or the write fails and the file is left
\* created and truncated.
FileWriteOutcomes == {"ok", "open_failed", "write_failed"}

AfterWrite(fs, path, content, outcome) ==
    CASE outcome = "ok" -> WriteFile(fs, path, content)
      [] outcome = "write_failed" -> WriteFile(fs, path, <<>>)
      [] outcome = "open_failed" -> fs

Step(t, frame) == calls' = [calls EXCEPT ![t] = frame]

(***************************************************************************)
(* ContainerEnvironment.build (lines 143-167).                             *)
(***************************************************************************)
\* with tempfile.TemporaryDirectory() as tempdir  (line 152)
TemporaryDirectory(t) ==
    /\ At(t, CBuild, "TemporaryDirectory")
    /\ \E ok \in BOOLEAN :
        IF ok
        THEN LET name == TmpNames[tmpCount + 1]
                 f == [calls[t] EXCEPT !.tmp = name]
             IN /\ tmpCount' = tmpCount + 1
                /\ dirs' = dirs \cup {TempPath(f)}
                /\ Step(t, Advance(f, "TemporaryDirectory"))
        ELSE /\ Step(t, Raise(calls[t], "TemporaryDirectory"))
             /\ UNCHANGED <<tmpCount, dirs>>
    /\ UNCHANGED <<cenv, lenv, files, pulled, images, containers, ncalls,
                   serialized, lastReturned, lastRecorder>>

\* LocalEnvironment()  (line 155): a fresh instance with a generated key,
\* held only by the call.
NewLocalEnvironment(t) ==
    /\ At(t, CBuild, "LocalEnvironment")
    /\ \E generated \in GeneratedKeys :
        LET fresh == LocalEnvironmentInit(None, generated, <<>>)
        IN Step(t, Advance([calls[t] EXCEPT !.encryption_key = fresh.encryption_key],
                           "LocalEnvironment"))
    /\ UNCHANGED <<cenv, lenv, dirs, files, pulled, images, containers,
                   tmpCount, ncalls, serialized, lastReturned, lastRecorder>>

\* flow.register(registry=registry)  (line 296), in build of either class
FlowRegister(t) ==
    /\ calls[t].op \in {CBuild, LBuild}
    /\ calls[t].pc = "flow.register"
    /\ \E ok \in BOOLEAN :
        Step(t, IF ok THEN Advance(calls[t], "flow.register")
                ELSE Raise(calls[t], "flow.register"))
    /\ UNCHANGED <<cenv, lenv, dirs, files, pulled, images, containers,
                   tmpCount, ncalls, serialized, lastReturned, lastRecorder>>

\* serialize_registry(...) and return serialized  (lines 297-300); in
\* ContainerEnvironment.build the result is serialized_registry (line 155).
SerializeRegistryCall(t) ==
    /\ calls[t].op \in {CBuild, LBuild}
    /\ calls[t].pc = "serialize_registry"
    /\ \E ok \in BOOLEAN :
        LET f == calls[t]
            k == IF f.op = CBuild THEN f.encryption_key ELSE lenv.encryption_key
            serialized_registry == SerializeRegistry(f.flow, k)
        IN Step(t, IF ~ok THEN Raise(f, "serialize_registry")
                   ELSE IF f.op = LBuild
                   THEN Finish([f EXCEPT !.value = serialized_registry],
                               "serialize_registry")
                   ELSE Advance([f EXCEPT !.serialized_registry = serialized_registry],
                                "serialize_registry"))
    /\ UNCHANGED <<cenv, lenv, dirs, files, pulled, images, containers,
                   tmpCount, ncalls, serialized, lastReturned, lastRecorder>>

\* self.serialized_registry_to_file(...)  (lines 156-158, 268-270)
SerializedRegistryToFile(t) ==
    /\ At(t, CBuild, "serialized_registry_to_file")
    /\ \E outcome \in FileWriteOutcomes :
        LET f == calls[t]
            path == <<TempPath(f), "registry">>
        IN /\ files' = AfterWrite(files, path, f.serialized_registry, outcome)
           /\ Step(t, IF outcome = "ok"
                      THEN Advance(f, "serialized_registry_to_file")
                      ELSE Raise(f, "serialized_registry_to_file"))
    /\ UNCHANGED <<cenv, lenv, dirs, pulled, images, containers,
                   tmpCount, ncalls, serialized, lastReturned, lastRecorder>>

\* Variant: a failed pull is caught and the build goes on.
PullImageSwallow(t) ==
    /\ At(t, CBuild, "pull_image")
    /\ \E ok \in BOOLEAN :
        IF ok
        THEN /\ pulled' = pulled \cup {cenv.image}
             /\ Step(t, Advance(calls[t], "pull_image"))
        ELSE /\ pulled' = pulled
             /\ Step(t, [calls[t] EXCEPT !.trace = Append(@, <<"pull_image", "failed">>),
                                         !.pc = Succ(CBuild, "pull_image")])
    /\ UNCHANGED <<cenv, lenv, dirs, files, images, containers,
                   tmpCount, ncalls, serialized, lastReturned, lastRecorder>>

\* self.pull_image()  (lines 160, 193)
PullImage(t) ==
    /\ At(t, CBuild, "pull_image")
    /\ \E ok \in BOOLEAN :
        IF ok
        THEN /\ pulled' = pulled \cup {cenv.image}
             /\ Step(t, Advance(calls[t], "pull_image"))
        ELSE /\ pulled' = pulled
             /\ Step(t, Raise(calls[t], "pull_image"))
    /\ UNCHANGED <<cenv, lenv, dirs, files, images, containers,
                   tmpCount, ncalls, serialized, lastReturned, lastRecorder>>

\* self.create_dockerfile(directory=tempdir)  (lines 161, 209-252)
CreateDockerfile(t) ==
    /\ At(t, CBuild, "create_dockerfile")
    /\ \E outcome \in FileWriteOutcomes :
        LET f == calls[t]
            path == <<TempPath(f), "Dockerfile">>
        IN /\ files' = AfterWrite(files, path, FileContents(cenv), outcome)
           /\ Step(t, IF outcome = "ok"
                      THEN Advance(f, "create_dockerfile")
                      ELSE Raise(f, "create_dockerfile"))
    /\ UNCHANGED <<cenv, lenv, dirs, pulled, images, containers,
                   tmpCount, ncalls, serialized, lastReturned, lastRecorder>>

\* Variant: a successful build resets last_container_id.
ImagesBuildReset(t) ==
    /\ At(t, CBuild, "images.build")
    /\ \E ok \in BOOLEAN :
        LET f == [calls[t] EXCEPT
                    !.context = {q[2] : q \in InDir(files, TempPath(calls[t]))},
                    !.contextPulled = cenv.image \in pulled]
        IN IF ok
           THEN /\ images' = images \cup {cenv.tag}
                /\ cenv' = [cenv EXCEPT !.last_container_id = None]
                /\ Step(t, Advance([f EXCEPT !.value = <<"image", cenv.tag>>],
                                   "images.build"))
           ELSE /\ images' = images
                /\ cenv' = cenv
                /\ Step(t, Raise(f, "images.build"))
    /\ UNCHANGED <<lenv, dirs, files, pulled, containers,
                   tmpCount, ncalls, serialized, lastReturned, lastRecorder>>

\* self.client.images.build(path=tempdir, tag=self.tag, forcerm=True)
\* (lines 163-165): the daemon receives the directory as it is now.
ImagesBuild(t) ==
    /\ At(t, CBuild, "images.build")
    /\ \E ok \in BOOLEAN :
        LET f == [calls[t] EXCEPT
                    !.context = {q[2] : q \in InDir(files, TempPath(calls[t]))},
                    !.contextPulled = cenv.image \in pulled]
        IN IF ok
           THEN /\ images' = images \cup {cenv.tag}
                /\ Step(t, Advance([f EXCEPT !.value = <<"image", cenv.tag>>],
                                   "images.build"))
           ELSE /\ images' = images
                /\ Step(t, Raise(f, "images.build"))
    /\ UNCHANGED <<cenv, lenv, dirs, files, pulled, containers,
                   tmpCount, ncalls, serialized, lastReturned, lastRecorder>>

\* Variant: the directory is removed only when no exception is propagating.
TemporaryDirectoryExitLeak(t) ==
    /\ At(t, CBuild, "TemporaryDirectory.__exit__")
    /\ dirs' = IF calls[t].exc THEN dirs ELSE dirs \ {TempPath(calls[t])}
    /\ files' = IF calls[t].exc THEN files
                ELSE RemoveFiles(files, InDir(files, TempPath(calls[t])))
    /\ Step(t, Finish(calls[t], "TemporaryDirectory.__exit__"))
    /\ UNCHANGED <<cenv, lenv, pulled, images, containers,
                   tmpCount, ncalls, serialized, lastReturned, lastRecorder>>

\* The end of the with block (line 152): TemporaryDirectory.__exit__ removes
\* the directory and everything in it, then the value or the exception
\* reaches the caller.
TemporaryDirectoryExit(t) ==
    /\ At(t, CBuild, "TemporaryDirectory.__exit__")
    /\ dirs' = dirs \ {TempPath(calls[t])}
    /\ files' = RemoveFiles(files, InDir(files, TempPath(calls[t])))
    /\ Step(t, Finish(calls[t], "TemporaryDirectory.__exit__"))
    /\ UNCHANGED <<cenv, lenv, pulled, images, containers,
                   tmpCount, ncalls, serialized, lastReturned, lastRecorder>>

(***************************************************************************)
(* ContainerEnvironment.run (lines 169-184).                               *)
(***************************************************************************)
\* running_container = self.client.containers.run(self.tag, command=cli_cmd,
\* detach=True)  (lines 179-181); key is not used.
ContainersRun(t) ==
    /\ At(t, CRun, "containers.run")
    /\ \E ok \in BOOLEAN :
        IF ok
        THEN LET id == ContainerIds[Len(containers) + 1]
             IN /\ containers' = Append(containers,
                        [id |-> id, image |-> cenv.tag, command |-> calls[t].cli_cmd])
                /\ Step(t, Advance([calls[t] EXCEPT !.running_container = id],
                                   "containers.run"))
        ELSE /\ containers' = containers
             /\ Step(t, Raise(calls[t], "containers.run"))
    /\ UNCHANGED <<cenv, lenv, dirs, files, pulled, images,
                   tmpCount, ncalls, serialized, lastReturned, lastRecorder>>

\* Variant: the assignment is missing.
AssignLastContainerIdForgotten(self, running_container) == self

\* Variant: the id recorded is that of the newest container the daemon knows.
AssignLastContainerIdNewest(self, running_container) ==
    [self EXCEPT !.last_container_id = containers[Len(containers)].id]

\* self.last_container_id = running_container.id  (line 182)
AssignLastContainerId(self, running_container) ==
    [self EXCEPT !.last_container_id = running_container]

\* lines 182-184: record the id, return the handle
RecordAndReturn(t) ==
    /\ At(t, CRun, "last_container_id")
    /\ cenv' = AssignLastContainerId(cenv, calls[t].running_container)
    /\ lastRecorder' = t
    /\ lastReturned' = calls[t].running_container
    /\ Step(t, Finish([calls[t] EXCEPT !.value = <<"container", calls[t].running_container>>],
                      "last_container_id"))
    /\ UNCHANGED <<lenv, dirs, files, pulled, images, containers,
                   tmpCount, ncalls, serialized>>

(***************************************************************************)
(* LocalEnvironment.run (lines 302-323).                                   *)
(***************************************************************************)
\* with tempfile.NamedTemporaryFile() as tmp  (line 314): a new, empty file
NamedTemporaryFile(t) ==
    /\ At(t, LRun, "NamedTemporaryFile")
    /\ \E ok \in BOOLEAN :
        IF ok
        THEN LET name == TmpNames[tmpCount + 1]
             IN /\ tmpCount' = tmpCount + 1
                /\ files' = WriteFile(files, <<TmpRoot, name>>, <<>>)
                /\ Step(t, Advance([calls[t] EXCEPT !.tmp = name],
                                   "NamedTemporaryFile"))
        ELSE /\ Step(t, Raise(calls[t], "NamedTemporaryFile"))
             /\ UNCHANGED <<tmpCount, files>>
    /\ UNCHANGED <<cenv, lenv, dirs, pulled, images, containers, ncalls,
                   serialized, lastReturned, lastRecorder>>

\* with open(tmp.name, "wb") as f: f.write(key)  (lines 315-316)
WriteKey(t) ==
    /\ At(t, LRun, "write_key")
    /\ \E outcome \in FileWriteOutcomes :
        LET f == calls[t]
        IN /\ files' = AfterWrite(files, <<TmpRoot, f.tmp>>, f.key, outcome)
           /\ Step(t, IF outcome = "ok" THEN Advance(f, "write_key")
                      ELSE Raise(f, "write_key"))
    /\ UNCHANGED <<cenv, lenv, dirs, pulled, images, containers,
                   tmpCount, ncalls, serialized, lastReturned, lastRecorder>>

\* Exit statuses the shell may report for a command.
ExitStatuses(cli_cmd) == IF cli_cmd = "exit 1" THEN {1} ELSE {0, 1}

\* env = [...]; return subprocess.check_output(" ".join(env + [cli_cmd]),
\* shell=True)  (lines 318-323): raises CalledProcessError on a non-zero exit.
CheckOutput(t) ==
    /\ At(t, LRun, "check_output")
    /\ \E status \in ExitStatuses(calls[t].cli_cmd) :
        LET f0 == calls[t]
            env == RunEnv(lenv, TempPath(f0))
            cmdline == Join(env \o <<f0.cli_cmd>>, " ")
            path == <<TmpRoot, f0.tmp>>
            f == [f0 EXCEPT !.env = env, !.cmdline = cmdline,
                            !.staged = IF path \in DOMAIN files THEN files[path]
                                       ELSE <<"absent">>]
        IN Step(t, IF status = 0
                   THEN Advance([f EXCEPT !.value = <<"output", cmdline>>],
                                "check_output")
                   ELSE Raise(f, "check_output"))
    /\ UNCHANGED <<cenv, lenv, dirs, files, pulled, images, containers,
                   tmpCount, ncalls, serialized, lastReturned, lastRecorder>>

\* Variant: the file is deleted only when no exception is propagating.
NamedTemporaryFileExitKeep(t) ==
    /\ At(t, LRun, "NamedTemporaryFile.__exit__")
    /\ files' = IF calls[t].exc THEN files
                ELSE RemoveFiles(files, {<<TmpRoot, calls[t].tmp>>})
    /\ Step(t, Finish(calls[t], "NamedTemporaryFile.__exit__"))
    /\ UNCHANGED <<cenv, lenv, dirs, pulled, images, containers,
                   tmpCount, ncalls, serialized, lastReturned, lastRecorder>>

\* The end of the with block (line 314): closing tmp deletes the file, then
\* the value or the exception reaches the caller.
NamedTemporaryFileExit(t) ==
    /\ At(t, LRun, "NamedTemporaryFile.__exit__")
    /\ files' = RemoveFiles(files, {<<TmpRoot, calls[t].tmp>>})
    /\ Step(t, Finish(calls[t], "NamedTemporaryFile.__exit__"))
    /\ UNCHANGED <<cenv, lenv, dirs, pulled, images, containers,
                   tmpCount, ncalls, serialized, lastReturned, lastRecorder>>

(***************************************************************************)
(* The system.                                                             *)
(***************************************************************************)
\* The state after the two environments have been constructed.
Constructed(overlap) ==
    /\ \E image \in ImageChoices, tag \in TagChoices,
          python_dependencies \in DependencyChoices, secrets \in SecretChoices :
            cenv = ContainerEnvironmentInit(image, tag, python_dependencies, secrets)
    /\ \E encryption_key \in KeyChoices, generated \in GeneratedKeys,
          secrets \in LocalSecretChoices :
            lenv = LocalEnvironmentInit(encryption_key, generated, secrets)
    /\ dirs = {}
    /\ files = NoFiles
    /\ pulled = {}
    /\ images = {}
    /\ containers = <<>>
    /\ tmpCount = 0
    /\ ncalls = 0
    /\ serialized = ~overlap
    /\ calls = [t \in Threads |-> IdleFrame]
    /\ lastReturned = None
    /\ lastRecorder = None

Init == Constructed(FALSE)

Next ==
    \E t \in Threads :
        \/ BeginContainerBuild(t)
        \/ BeginContainerRun(t)
        \/ BeginLocalBuild(t)
        \/ BeginLocalRun(t)
        \/ TemporaryDirectory(t)
        \/ NewLocalEnvironment(t)
        \/ FlowRegister(t)
        \/ SerializeRegistryCall(t)
        \/ SerializedRegistryToFile(t)
        \/ PullImage(t)
        \/ CreateDockerfile(t)
        \/ ImagesBuild(t)
        \/ TemporaryDirectoryExit(t)
        \/ ContainersRun(t)
        \/ RecordAndReturn(t)
        \/ NamedTemporaryFile(t)
        \/ WriteKey(t)
        \/ CheckOutput(t)
        \/ NamedTemporaryFileExit(t)

\* Callers that serialize their calls.
Spec == Init /\ [][Next]_vars

\* Callers that overlap calls on the same two instances.  The interleavings
\* do not depend on the configuration, so one configuration per tag is taken.
InitOverlap ==
    /\ Constructed(TRUE)
    /\ cenv.python_dependencies = PyNone
    /\ cenv.secrets = <<>>
    /\ lenv.secrets = <<>>
    /\ lenv.encryption_key = "userkey"

SpecOverlap == InitOverlap /\ [][Next]_vars

(***************************************************************************)
(* Properties.                                                             *)
(***************************************************************************)
StepNames(f) == [i \in 1..Len(f.trace) |-> f.trace[i][1]]
Executed(f, step) == \E i \in 1..Len(f.trace) : f.trace[i][1] = step
Succeeded(f, step) == \E i \in 1..Len(f.trace) : f.trace[i] = <<step, "ok">>
Failed(f, step) == \E i \in 1..Len(f.trace) : f.trace[i] = <<step, "failed">>
SomeFailed(f) == \E i \in 1..Len(f.trace) : f.trace[i][2] = "failed"
Ended(f) == f.pc = "done"

\* The __exit__ of a with block: cleanup, not a step of the method's body.
ScopeExits == {"TemporaryDirectory.__exit__", "NamedTemporaryFile.__exit__"}

\* C1: once ContainerEnvironment.build has returned or raised, the temporary
\* directory created for that call, and everything in it, no longer exists,
\* whichever step failed or if none did.
C1_TempDirGone ==
    \A t \in Threads :
        LET f == calls[t]
        IN (f.op = CBuild /\ Ended(f) /\ f.tmp # None)
           => /\ TempPath(f) \notin dirs
              /\ InDir(files, TempPath(f)) = {}

\* A build that created its directory, staged the registry, and then raised
\* because the image pull failed.
C1_Witness ==
    \E t \in Threads :
        LET f == calls[t]
        IN /\ f.op = CBuild /\ Ended(f) /\ f.outcome = "raised"
           /\ Succeeded(f, "serialized_registry_to_file")
           /\ Failed(f, "pull_image")
           /\ TempPath(f) \notin dirs

\* The order of the steps of build, as the claim lists them.
BuildOrder ==
    <<"TemporaryDirectory", "LocalEnvironment", "flow.register", "serialize_registry",
      "serialized_registry_to_file", "pull_image", "create_dockerfile", "images.build">>

\* C2: within one build the steps happen in the order temp-dir creation,
\* staging of the serialized registry, image pull, Dockerfile synthesis,
\* image build; images.build is only ever invoked on a directory that holds
\* both the registry file and the Dockerfile, after the pull has completed.
C2_BuildOrder ==
    \A t \in Threads :
        LET f == calls[t]
            n == StepNames(f)
        IN f.op = CBuild =>
            /\ \A i \in 1..Len(n) :
                  \/ i <= Len(BuildOrder) /\ n[i] = BuildOrder[i]
                  \/ i = Len(n) /\ n[i] \in ScopeExits
            /\ Executed(f, "images.build") =>
                  /\ {"registry", "Dockerfile"} \subseteq f.context
                  /\ f.contextPulled
                  /\ Succeeded(f, "pull_image")
                  /\ Succeeded(f, "create_dockerfile")
                  /\ Succeeded(f, "serialized_registry_to_file")

\* A build that ran to the end and returned the image.
C2_Witness ==
    \E t \in Threads :
        LET f == calls[t]
        IN /\ f.op = CBuild /\ Ended(f) /\ f.outcome = "returned"
           /\ f.value = <<"image", cenv.tag>>
           /\ f.context = {"registry", "Dockerfile"}

\* C3: a failed step of build or run ends the call in failure: no later step
\* of the call's body is executed, no step is executed twice, an exception is
\* propagating from then on, and the call ends raising without a value.
C3_FailurePropagates ==
    \A t \in Threads :
        LET f == calls[t]
            tr == f.trace
        IN /\ \A i \in 1..Len(tr) :
                 tr[i][2] = "failed" =>
                    /\ \A j \in (i + 1)..Len(tr) : tr[j][1] \in ScopeExits
                    /\ f.exc
                    /\ f.pc \in ScopeExits \cup {"done"}
           /\ \A i, j \in 1..Len(tr) : i # j => tr[i][1] # tr[j][1]
           /\ (Ended(f) /\ SomeFailed(f)) => (f.outcome = "raised" /\ f.value = <<>>)
           /\ (Ended(f) /\ f.outcome = "returned") => ~SomeFailed(f)

\* A LocalEnvironment.run whose command exited non-zero, and which raised.
C3_Witness ==
    \E t \in Threads :
        LET f == calls[t]
        IN /\ f.op = LRun /\ Ended(f) /\ f.outcome = "raised"
           /\ Failed(f, "check_output")

\* C4: in every LocalEnvironment.run the temporary file is created by that
\* call, holds exactly the bytes of key when the shell command is executed
\* (which is given that file's path), and no longer exists once the call
\* has ended, whether the command succeeded or exited non-zero.
C4_TempFileScoped ==
    \A t \in Threads :
        LET f == calls[t]
        IN f.op = LRun =>
            /\ Executed(f, "check_output") =>
                  /\ f.trace[1] = <<"NamedTemporaryFile", "ok">>
                  /\ f.tmp # None
                  /\ \A u \in Threads \ {t} : calls[u].tmp # f.tmp
                  /\ f.staged = f.key
                  /\ f.env[1] = "PREFECT__REGISTRY__STARTUP_REGISTRY_PATH=\"/tmp/"
                                 \o f.tmp \o "\""
            /\ (Ended(f) /\ f.tmp # None) => <<TmpRoot, f.tmp>> \notin DOMAIN files

\* A run whose command exited non-zero: the file held key, and is gone.
C4_Witness ==
    \E t \in Threads :
        LET f == calls[t]
        IN /\ f.op = LRun /\ Ended(f) /\ f.outcome = "raised"
           /\ Failed(f, "check_output")
           /\ f.staged = f.key
           /\ <<TmpRoot, f.tmp>> \notin DOMAIN files

\* C5: between non-overlapping calls, last_container_id is None if no run
\* has succeeded so far, and otherwise the id of the handle returned by the
\* most recent successful run; a run whose container start fails leaves it
\* at its previous value.
C5_LastContainerId ==
    (\A t \in Threads : Quiet(t)) =>
        /\ cenv.last_container_id = lastReturned
        /\ cenv.last_container_id =
              IF containers = <<>> THEN None ELSE containers[Len(containers)].id
        /\ \A t \in Threads :
              LET f == calls[t]
              IN (f.op = CRun /\ Ended(f) /\ f.outcome = "returned")
                 => f.value = <<"container", cenv.last_container_id>>

\* A run that failed to start its container after an earlier run succeeded.
C5_Witness ==
    \E t \in Threads :
        LET f == calls[t]
        IN /\ f.op = CRun /\ Ended(f) /\ f.outcome = "raised"
           /\ Failed(f, "containers.run")
           /\ cenv.last_container_id = "c1"

BothRunsCompleted ==
    \A t \in Threads :
        calls[t].op = CRun /\ Ended(calls[t]) /\ calls[t].outcome = "returned"

\* C6: when two runs on one instance overlap, the container start and the
\* assignment of last_container_id are separate steps: once both runs have
\* completed, last_container_id is the id held by whichever run assigned
\* last, which need not be the run whose container started last.
C6_LastWriterWins ==
    BothRunsCompleted =>
        /\ lastRecorder \in Threads
        /\ cenv.last_container_id = calls[lastRecorder].running_container
        /\ \E i \in 1..Len(containers) : containers[i].id = cenv.last_container_id

\* Both runs have completed and last_container_id holds the id of the
\* container that was started first, not of the one started last.
C6_Witness ==
    /\ BothRunsCompleted
    /\ Len(containers) = 2
    /\ cenv.last_container_id = containers[1].id
    /\ cenv.last_container_id # containers[2].id

\* The number of entries of the list env equal to assignment.
Occurrences(env, assignment) ==
    Cardinality({j \in 1..Len(env) : env[j] = assignment})

\* C7: for a LocalEnvironment that holds secrets, the environment-variable
\* prefix that run prepends to the command contains exactly one quoted
\* assignment NAME="VALUE" for each Secret.
C7_SecretsInPrefix ==
    \A t \in Threads :
        LET f == calls[t]
        IN (f.op = LRun /\ Executed(f, "check_output")) =>
              \A i \in 1..Len(lenv.secrets) :
                  Occurrences(f.env, lenv.secrets[i].name \o "=\""
                                     \o lenv.secrets[i].value \o "\"") = 1

\* The texts of the non-blank lines of a file, in order.
NonBlank(d) ==
    LET nb == SelectSeq(d, LAMBDA l : l.text # "")
    IN [i \in 1..Len(nb) |-> nb[i].text]

\* The Dockerfiles present in the file system that a create_dockerfile of
\* the ContainerEnvironment has written in full.
WrittenDockerfiles ==
    {files[<<TempPath(calls[t]), "Dockerfile">>] :
        t \in {u \in Threads :
                  /\ calls[u].op = CBuild
                  /\ Succeeded(calls[u], "create_dockerfile")
                  /\ <<TempPath(calls[u]), "Dockerfile">> \in DOMAIN files}}

SecretLine(secret) == "ENV " \o secret.name \o "=" \o secret.value

\* The instruction "RUN pip install d1 \<newline>d2 ..." as one text.
PipInstruction(deps) == "RUN pip install " \o Join(deps, " \\\n")

\* The lines that close every manifest: git, the copy of the registry file,
\* the registry-path variable (the name as the template spells it), prefect.
ManifestTail ==
    << AptGetLine,
       "COPY registry ./registry",
       "ENV " \o DockerfileRegistryPathVar \o " ./registry",
       GitCloneLine,
       "RUN pip install prefect" >>

ManifestHead(env) ==
    << "FROM " \o env.image, "RUN pip install pip --upgrade", "RUN pip install wheel" >>

\* nb is head, then first, then second, then tail, where the ENV lines are
\* one per secret and the pip lines form one instruction (or are absent).
ManifestParts(nb, env, envFirst) ==
    LET k == Len(env.secrets)
        deps == env.python_dependencies
        m == Len(nb) - Len(ManifestTail) - Len(ManifestHead(env)) - k
        envAt == IF envFirst THEN Len(ManifestHead(env)) ELSE Len(ManifestHead(env)) + m
        pipAt == IF envFirst THEN Len(ManifestHead(env)) + k ELSE Len(ManifestHead(env))
    IN /\ m >= 0
       /\ SubSeq(nb, 1, Len(ManifestHead(env))) = ManifestHead(env)
       /\ \A i \in 1..k : nb[envAt + i] = SecretLine(env.secrets[i])
       /\ IF Truthy(deps)
          THEN m >= 1 /\ Join(SubSeq(nb, pipAt + 1, pipAt + m), "\n")
                         = PipInstruction(deps.items)
          ELSE m = 0
       /\ SubSeq(nb, Len(nb) - Len(ManifestTail) + 1, Len(nb)) = ManifestTail

\* C8 as amended: the manifest holds, in this order, the base image, the
\* pip/wheel bootstrap, one ENV NAME=VALUE line per Secret (none without
\* secrets), one pip install instruction listing all python_dependencies
\* (only when the list is non-empty), the installation of git, the copy of
\* the registry file, the registry-path variable, the installation of prefect.
C8_ManifestOrder ==
    \A d \in WrittenDockerfiles : ManifestParts(NonBlank(d), cenv, TRUE)

\* A manifest with two ENV lines and a two-package pip install instruction.
C8_Witness ==
    /\ WrittenDockerfiles # {}
    /\ Len(cenv.secrets) = 2
    /\ cenv.python_dependencies = PyList(<<"pandas", "numpy">>)
    /\ \A d \in WrittenDockerfiles :
          /\ NonBlank(d)[4] = "ENV A=1"
          /\ NonBlank(d)[5] = "ENV B=2"
          /\ NonBlank(d)[6] = "RUN pip install pandas \\"
          /\ NonBlank(d)[7] = "numpy"

\* C8 as stated: the pip install instruction comes before the ENV lines of
\* the secrets.
C8_OriginalOrder ==
    \A d \in WrittenDockerfiles : ManifestParts(NonBlank(d), cenv, FALSE)

\* C9: the manifest sets PREFECT__REGISTRY__STARTUP_REGISTRY_PATH, the
\* variable LocalEnvironment.run sets for its command, to ./registry.
C9_RegistryPathVar ==
    \A d \in WrittenDockerfiles :
        \E i \in 1..Len(d) :
            d[i].text \in {"ENV " \o RunRegistryPathVar \o " ./registry",
                           "ENV " \o RunRegistryPathVar \o "=./registry"}

\* C10: no step of any build, and no step of LocalEnvironment.run, changes
\* an attribute of either instance; the only attribute ever changed is
\* last_container_id, and only by the assignment in ContainerEnvironment.run.
C10_Frame ==
    [][ /\ lenv' = lenv
        /\ cenv' # cenv =>
             /\ cenv' = [cenv EXCEPT !.last_container_id = cenv'.last_container_id]
             /\ \E t \in Threads :
                   /\ At(t, CRun, "last_container_id")
                   /\ calls'[t].pc = "done" ]_vars

\* A build has returned after a run had recorded a container id, and the
\* id is still there.
C10_Witness ==
    \E t \in Threads :
        LET f == calls[t]
        IN /\ f.op = CBuild /\ Ended(f) /\ f.outcome = "returned"
           /\ cenv.last_container_id = "c1"

====
